---- MODULE Spec2Model ----
(***************************************************************************)
(* A model of the file scripts of learning-hub:                            *)
(*   logfile_splitter.py   process_log_file                                *)
(*   journal_organizer.py  organize_and_merge_files_by_date                *)
(*   journal_converter.py  process_files_in_directory                      *)
(*   directory_merger.py   compare_and_process_dirs                        *)
(*   extension_based_splitter.py  organize_files_by_extension              *)
(*   audio_speaker_diarization.py  speaker_diarization_and_transcription   *)
(* Text (file names, file contents, date fields) is a sequence of          *)
(* one-character strings; a path is a sequence of names; the file system   *)
(* is a function from the paths of the existing files to their contents    *)
(* plus the set of the existing directories.                               *)
(***************************************************************************)
EXTENDS Integers, Sequences, FiniteSets, TLC

VARIABLES
    pc,         \* position of the running script
    fs,         \* files: path -> content
    dirs,       \* existing directories (set of paths)
    fs0,        \* the files when the script started (never changes)
    denied,     \* paths that open() for writing refuses (never changes)
    \* ---- logfile_splitter.process_log_file
    input,      \* the lines of the input file
    idx,        \* number of input lines consumed by the for loop
    handler,    \* current_output_file_handler: [set, closed, path]
    current_output_filename,
    lines_for_current_segment,
    openFiles,  \* output paths with a handle that close() was not called on
    caught,     \* the outer except clause that ran ("none" when none did)
    \* ---- journal_organizer.organize_and_merge_files_by_date
    \* ---- journal_converter.process_files_in_directory
    input_dir,  \* the directory scanned (directory_path of the converter)
    output_dir, \* the output directory of the organizer
    todo,       \* the listed entries the loop has not reached yet
    written,    \* the paths written so far as the destination of a move or merge
    run,        \* 1 in the first run of the script, 2 in a second run
    snap,       \* the files at the end of the first run
    errors,     \* the number of operations that have failed so far, in both runs
    moved_files_count,
    merged_files_count,
    skipped_files_count,
    processed_successfully,
    \* ---- directory_merger.compare_and_process_dirs
    \* ---- extension_based_splitter.organize_files_by_extension
    walk,       \* what os.walk still has to yield
    dirpath,    \* the directory os.walk has yielded last
    filenames,  \* the files of dirpath the inner loop has not reached yet
    stack,      \* os.walk bottom up: the directories listed and not yet yielded
    root_sep,   \* root_folder was given with a trailing path separator
    deleted_dirs_count,
    \* ---- audio_speaker_diarization.speaker_diarization_and_transcription
    all_words,          \* the words of the transcription, with their times
    speaker_segments,   \* the segments of the diarization
    word_i,             \* number of words the for loop has consumed
    current_bullet_speaker,
    current_bullet_text_parts,
    current_bullet_start_time,
    output_lines

svars == <<input, idx, handler, current_output_filename,
           lines_for_current_segment, openFiles, caught>>

jvars == <<input_dir, output_dir, todo, written, run, snap, errors,
           moved_files_count, merged_files_count, skipped_files_count,
           processed_successfully>>

wvars == <<walk, dirpath, filenames, stack, root_sep, deleted_dirs_count>>

dvars == <<all_words, speaker_segments, word_i, current_bullet_speaker,
           current_bullet_text_parts, current_bullet_start_time, output_lines>>

\* no directory walk is going on
WalkIdle ==
    /\ walk = {}
    /\ dirpath = <<>>
    /\ filenames = {}
    /\ stack = <<>>
    /\ root_sep = FALSE
    /\ deleted_dirs_count = 0

\* what a variable holds while it is None
None == "None"

\* current_bullet_start_time while it is None
NoStartTime == -1

\* no transcription is being combined with a diarization
DiarizeIdle ==
    /\ all_words = <<>>
    /\ speaker_segments = <<>>
    /\ word_i = 0
    /\ current_bullet_speaker = None
    /\ current_bullet_text_parts = <<>>
    /\ current_bullet_start_time = NoStartTime
    /\ output_lines = <<>>

(***************************************************************************)
(* Bounds of the model.                                                    *)
(***************************************************************************)
MaxLines == 4
MaxFiles == 2
MaxErrors == 1

(***************************************************************************)
(* Text helpers.                                                           *)
(***************************************************************************)
Digits == <<"0", "1", "2", "3", "4", "5", "6", "7", "8", "9">>

IsDigit(c) == \E k \in 1..10 : Digits[k] = c

DigitVal(c) == (CHOOSE k \in 1..10 : Digits[k] = c) - 1

AllDigits(s) == \A i \in 1..Len(s) : IsDigit(s[i])

RECURSIVE NumVal(_)
NumVal(s) == IF s = <<>> THEN 0
             ELSE 10 * NumVal(SubSeq(s, 1, Len(s) - 1)) + DigitVal(s[Len(s)])

RECURSIVE ZeroPad(_, _)
\* n written in decimal, zero-padded on the left to at least w characters
ZeroPad(n, w) == IF w <= 1 /\ n < 10 THEN <<Digits[n + 1]>>
                 ELSE ZeroPad(n \div 10, w - 1) \o <<Digits[(n % 10) + 1]>>

RECURSIVE Flatten(_)
Flatten(ss) == IF ss = <<>> THEN <<>> ELSE Head(ss) \o Flatten(Tail(ss))

IsPrefix(s, t) == Len(s) <= Len(t) /\ SubSeq(t, 1, Len(s)) = s

(***************************************************************************)
(* File system helpers.                                                    *)
(***************************************************************************)
Exists(f, p) == p \in DOMAIN f

Put(f, p, c) == [q \in (DOMAIN f) \cup {p} |-> IF q = p THEN c ELSE f[q]]

Del(f, p) == [q \in (DOMAIN f) \ {p} |-> f[q]]

NoFiles == [q \in {} |-> <<>>]

(***************************************************************************)
(* logfile_splitter.py: input lines.  A line is its bracketed time stamp   *)
(* "[m/d/y, 9:00:00 AM]" (when stamp is TRUE) followed by free text; bad   *)
(* marks a line holding bytes that are not UTF-8.                          *)
(***************************************************************************)
Line(stamp, m, d, y, rest, bad) ==
    [stamp |-> stamp, m |-> m, d |-> d, y |-> y, rest |-> rest, bad |-> bad]

Lines ==
    { Line(TRUE, <<"1">>, <<"2">>, <<"2", "4">>, <<"h">>, FALSE),
      Line(TRUE, <<"1">>, <<"3">>, <<"2", "4">>, <<"n">>, FALSE),
      Line(TRUE, <<"1", "3">>, <<"4", "5">>, <<"9", "9">>, <<"x">>, FALSE),
      Line(TRUE, <<"1">>, <<"2">>, <<"2", "0", "2", "4">>, <<"q">>, FALSE),
      Line(FALSE, <<>>, <<>>, <<>>, <<"w">>, FALSE),
      Line(FALSE, <<>>, <<>>, <<>>, <<"d">>, FALSE),
      Line(FALSE, <<>>, <<>>, <<>>, <<"u">>, TRUE) }

Inputs == UNION { [1..n -> Lines] : n \in 0..MaxLines }

\* the text of a line, with its line terminator
Render(line) ==
    (IF line.stamp
       THEN <<"[">> \o line.m \o <<"/">> \o line.d \o <<"/">> \o line.y
            \o <<",", " ", "9:00:00", " ", "AM", "]", " ">>
       ELSE <<>>)
    \o line.rest \o <<"\n">>

RenderAll(ls) == Flatten([i \in 1..Len(ls) |-> Render(ls[i])])

user_info == <<"b", "o", "b">>

\* re.search(date_pattern, line): \d{1,2}/\d{1,2}/\d{2} followed by a comma
date_pattern(line) ==
    /\ line.stamp
    /\ Len(line.m) \in 1..2 /\ AllDigits(line.m)
    /\ Len(line.d) \in 1..2 /\ AllDigits(line.d)
    /\ Len(line.y) = 2 /\ AllDigits(line.y)

\* match.group(3) + '-' + match.group(1) + '-' + match.group(2)
date_str_for_filename(line) == line.y \o <<"-">> \o line.m \o <<"-">> \o line.d

IsLeap(y) == (y % 4 = 0 /\ y % 100 # 0) \/ y % 400 = 0

DaysInMonth(y, m) ==
    IF m = 2 THEN (IF IsLeap(y) THEN 29 ELSE 28)
    ELSE IF m \in {4, 6, 9, 11} THEN 30 ELSE 31

NoDate == [ok |-> FALSE, year |-> 0, month |-> 0, day |-> 0]

\* a parser that takes any three digit groups and reads a two-digit year as
\* 20yy, with no range check (what Strptime is not)
StrptimeLenient(s) ==
    LET dash == { i \in 1..Len(s) : s[i] = "-" }
    IN  IF Cardinality(dash) # 2 THEN NoDate
        ELSE LET i  == CHOOSE i \in dash : \A j \in dash : i <= j
                 j  == CHOOSE j \in dash : \A k \in dash : k <= j
                 yy == SubSeq(s, 1, i - 1)
                 mm == SubSeq(s, i + 1, j - 1)
                 dd == SubSeq(s, j + 1, Len(s))
             IN  IF AllDigits(yy) /\ AllDigits(mm) /\ AllDigits(dd)
                    /\ yy # <<>> /\ mm # <<>> /\ dd # <<>>
                   THEN [ok |-> TRUE,
                         year |-> IF Len(yy) = 2 THEN 2000 + NumVal(yy) ELSE NumVal(yy),
                         month |-> NumVal(mm), day |-> NumVal(dd)]
                   ELSE NoDate

\* datetime.strptime(s, "%Y-%m-%d"): %Y is exactly four digits, %m is
\* 1[0-2]|0[1-9]|[1-9], %d is 3[01]|[12]\d|0[1-9]|[1-9]; the whole string
\* must be consumed and the fields must form a date (year >= 1)
Strptime(s) ==
    LET fits == { ml \in 1..2 :
                    /\ Len(s) \in {4 + 1 + ml + 1 + 1, 4 + 1 + ml + 1 + 2}
                    /\ AllDigits(SubSeq(s, 1, 4))
                    /\ s[5] = "-"
                    /\ AllDigits(SubSeq(s, 6, 5 + ml))
                    /\ NumVal(SubSeq(s, 6, 5 + ml)) \in 1..12
                    /\ s[6 + ml] = "-"
                    /\ AllDigits(SubSeq(s, 7 + ml, Len(s)))
                    /\ NumVal(SubSeq(s, 7 + ml, Len(s))) \in 1..31 }
    IN  IF fits = {} THEN NoDate
        ELSE LET ml == CHOOSE ml \in fits : TRUE
                 y  == NumVal(SubSeq(s, 1, 4))
                 m  == NumVal(SubSeq(s, 6, 5 + ml))
                 d  == NumVal(SubSeq(s, 7 + ml, Len(s)))
             IN  IF y >= 1 /\ d <= DaysInMonth(y, m)
                   THEN [ok |-> TRUE, year |-> y, month |-> m, day |-> d]
                   ELSE NoDate

\* dt_obj.strftime("%Y_%m_%d") (years below 1000 are not reached: platforms
\* differ on their padding)
Strftime(dt) ==
    ZeroPad(dt.year, 4) \o <<"_">> \o ZeroPad(dt.month, 2) \o <<"_">> \o ZeroPad(dt.day, 2)

\* f"{output_filename_base}.md"
OutputFilename(dt) == Strftime(dt) \o <<".", "m", "d">>

\* the header written right after open(): the date line, user_info, file name
HeaderText(line, name) ==
    Render(line) \o <<" ">> \o user_info \o <<":", " ">>
                 \o <<" ">> \o name \o <<":", " ">>

\* what the file holds when the first, second or third header write raises
HeaderParts(line, name) ==
    { <<>>, Render(line), Render(line) \o <<" ">> \o user_info \o <<":", " ">> }

NoHandler == [set |-> FALSE, closed |-> TRUE, path |-> <<>>]

(***************************************************************************)
(* logfile_splitter.py: process_log_file.                                  *)
(* io names the one operation of the step that fails, if any: "decode"     *)
(* (reading the line), "body" (writing a collected line), "header"         *)
(* (writing the header); open() fails on the paths in denied.              *)
(***************************************************************************)
IOOutcomes == {"ok", "decode", "body", "header"}

\* the finally clause: a handle that is set and not closed is closed
Finally(h, open) == IF h.set /\ ~h.closed THEN open \ {h.path} ELSE open

\* with open(input_filepath, 'r', encoding='utf-8') as infile
OpenInput ==
    /\ pc = "start"
    /\ \E found \in BOOLEAN :
         /\ pc' = IF found THEN "scan" ELSE "done"
         /\ caught' = IF found THEN "none" ELSE "FileNotFoundError"
    /\ UNCHANGED <<dvars, fs, dirs, fs0, denied, wvars, input, idx, handler, current_output_filename,
                   lines_for_current_segment, openFiles, jvars>>

\* the outer "except Exception" and the finally clause, from inside the loop
Abort(f, open) ==
    /\ pc' = "done"
    /\ caught' = "Exception"
    /\ fs' = f
    /\ openFiles' = Finally(handler, open)
    /\ handler' = [handler EXCEPT !.closed = TRUE]
    /\ UNCHANGED <<dvars, idx, current_output_filename, lines_for_current_segment>>

\* one iteration of "for line in infile"
ProcessLine ==
    /\ pc = "scan"
    /\ idx < Len(input)
    /\ \E io \in IOOutcomes :
       LET line     == input[idx + 1]
           flushing == handler.set
           body     == lines_for_current_segment
           date_str == date_str_for_filename(line)
           dt_obj   == Strptime(date_str)
           name     == OutputFilename(dt_obj)
           path     == <<name>>
           \* state after lines 34-39
           fsFlushed   == IF flushing
                            THEN Put(fs, handler.path, fs[handler.path] \o RenderAll(body))
                            ELSE fs
           openFlushed == IF flushing THEN openFiles \ {handler.path} ELSE openFiles
       IN
       /\ io = "decode" => \E j \in (idx + 1)..Len(input) : input[j].bad
       /\ line.bad => io = "decode"
       /\ UNCHANGED <<dvars, dirs, fs0, denied, input, jvars, wvars>>
       /\ IF io = "decode"
            THEN Abort(fs, openFiles)
          ELSE IF date_pattern(line)
            THEN IF flushing /\ io = "body" /\ body # <<>>
                   \* line 36 raises: some of the collected lines are written
                   THEN \E k \in 0..(Len(body) - 1) :
                          Abort(Put(fs, handler.path,
                                    fs[handler.path] \o RenderAll(SubSeq(body, 1, k))),
                                openFiles)
                 ELSE IF ~dt_obj.ok
                   \* lines 68-73: ValueError
                   THEN /\ fs' = fsFlushed
                        /\ openFiles' = openFlushed
                        /\ handler' = NoHandler
                        /\ lines_for_current_segment' = <<>>
                        /\ idx' = idx + 1
                        /\ UNCHANGED <<dvars, pc, caught, current_output_filename>>
                 ELSE IF path \in denied
                   \* lines 91-94: open() raises
                   THEN /\ fs' = fsFlushed
                        /\ openFiles' = openFlushed
                        /\ handler' = NoHandler
                        /\ lines_for_current_segment' = <<>>
                        /\ current_output_filename' = name
                        /\ idx' = idx + 1
                        /\ UNCHANGED <<dvars, pc, caught>>
                 ELSE IF io = "header"
                   \* lines 91-94: a header write raises after open(..., 'w')
                   THEN /\ \E part \in HeaderParts(line, name) :
                             fs' = Put(fsFlushed, path, part)
                        /\ openFiles' = openFlushed \cup {path}
                        /\ handler' = NoHandler
                        /\ lines_for_current_segment' = <<>>
                        /\ current_output_filename' = name
                        /\ idx' = idx + 1
                        /\ UNCHANGED <<dvars, pc, caught>>
                   \* lines 77-87: the file is created or truncated, header written
                   ELSE /\ fs' = Put(fsFlushed, path, HeaderText(line, name))
                        /\ openFiles' = openFlushed \cup {path}
                        /\ handler' = [set |-> TRUE, closed |-> FALSE, path |-> path]
                        /\ lines_for_current_segment' = <<>>
                        /\ current_output_filename' = name
                        /\ idx' = idx + 1
                        /\ UNCHANGED <<dvars, pc, caught>>
          ELSE \* lines 97-100
               /\ lines_for_current_segment' =
                     IF handler.set THEN Append(lines_for_current_segment, line)
                     ELSE lines_for_current_segment
               /\ idx' = idx + 1
               /\ UNCHANGED <<dvars, pc, fs, handler, current_output_filename,
                              openFiles, caught>>

\* lines 102-119: end of the input file
EndOfInput ==
    /\ pc = "scan"
    /\ idx = Len(input)
    /\ \E io \in {"ok", "body"} :
         IF handler.set /\ io = "body" /\ lines_for_current_segment # <<>>
           THEN \E k \in 0..(Len(lines_for_current_segment) - 1) :
                  /\ fs' = Put(fs, handler.path, fs[handler.path]
                               \o RenderAll(SubSeq(lines_for_current_segment, 1, k)))
                  /\ caught' = "Exception"
           ELSE /\ fs' = IF handler.set
                           THEN Put(fs, handler.path, fs[handler.path]
                                    \o RenderAll(lines_for_current_segment))
                           ELSE fs
                /\ caught' = caught
    /\ pc' = "done"
    /\ openFiles' = Finally(handler, openFiles)
    /\ handler' = [handler EXCEPT !.closed = TRUE]
    /\ UNCHANGED <<dvars, dirs, fs0, denied, wvars, input, idx, current_output_filename,
                   lines_for_current_segment, jvars>>

\* the journal scripts are not running
JournalIdle ==
    /\ input_dir = <<>>
    /\ output_dir = <<>>
    /\ todo = {}
    /\ written = {}
    /\ run = 0
    /\ snap = [files |-> NoFiles, clean |-> FALSE]
    /\ errors = 0
    /\ moved_files_count = 0
    /\ merged_files_count = 0
    /\ skipped_files_count = 0
    /\ processed_successfully = 0

\* the output files an earlier run left in the working directory
OldContent == <<"o", "\n">>

InitialOutputs ==
    { NoFiles,
      [q \in {<<OutputFilename([year |-> 2024, month |-> 1, day |-> 2])>>}
          |-> OldContent] }

InitSplitter ==
    /\ DiarizeIdle
    /\ pc = "start"
    /\ fs \in InitialOutputs
    /\ fs0 = fs
    /\ denied \in { {}, {<<OutputFilename([year |-> 2024, month |-> 1, day |-> 2])>>} }
    /\ dirs = {}
    /\ input \in Inputs
    /\ idx = 0
    /\ handler = NoHandler
    /\ current_output_filename = <<>>
    /\ lines_for_current_segment = <<>>
    /\ openFiles = {}
    /\ caught = "none"
    /\ JournalIdle
    /\ WalkIdle

vars == <<pc, fs, dirs, fs0, denied, svars, jvars, wvars, dvars>>

NextSplitter == OpenInput \/ ProcessLine \/ EndOfInput

SpecSplitter == InitSplitter /\ [][NextSplitter]_vars

(***************************************************************************)
(* Claims about process_log_file.                                          *)
(***************************************************************************)
\* the month, day and two-digit year of a matching line form a calendar date
ValidCalendarDate(line) ==
    /\ NumVal(line.m) \in 1..12
    /\ NumVal(line.d) \in 1..DaysInMonth(2000 + NumVal(line.y), NumVal(line.m))

\* a boundary line: it matches the pattern and carries a calendar date
IsBoundary(line) == ~line.bad /\ date_pattern(line) /\ ValidCalendarDate(line)

\* YYYY_MM_DD.md for the date of a boundary line
ExpectedPath(line) ==
    << ZeroPad(2000 + NumVal(line.y), 4) \o <<"_">> \o ZeroPad(NumVal(line.m), 2)
       \o <<"_">> \o ZeroPad(NumVal(line.d), 2) \o <<".", "m", "d">> >>

\* the number of places where text sub occurs in text s
CountOcc(sub, s) ==
    Cardinality({ k \in 0..(Len(s) - Len(sub)) : SubSeq(s, k + 1, k + Len(sub)) = sub })

Occurs(sub, s) == CountOcc(sub, s) > 0

RECURSIVE SumOver(_, _)
SumOver(S, g) == IF S = {} THEN 0
                 ELSE LET x == CHOOSE x \in S : TRUE IN g[x] + SumOver(S \ {x}, g)

ScanCompleted == pc = "done" /\ caught = "none"

\* position of the nearest line before i that matches the pattern (0: none)
SegmentStart(i) ==
    LET before == { j \in 1..(i - 1) : date_pattern(input[j]) }
    IN  IF before = {} THEN 0 ELSE CHOOSE j \in before : \A k \in before : k <= j

\* the lines after boundary line j up to the next line matching the pattern
SegmentBody(j) ==
    LET later == { k \in (j + 1)..Len(input) : date_pattern(input[k]) }
        stop  == IF later = {} THEN Len(input) + 1
                 ELSE CHOOSE k \in later : \A l \in later : k <= l
    IN  SubSeq(input, j + 1, stop - 1)

ContentLineAt(i) ==
    /\ ~date_pattern(input[i])
    /\ SegmentStart(i) > 0
    /\ IsBoundary(input[SegmentStart(i)])

\* C1: when the scan has completed, every input line that matches the pattern
\* and carries a calendar date has its output file YYYY_MM_DD.md.
C1_EveryDatedLineHasItsFile ==
    ScanCompleted =>
        \A i \in 1..Len(input) :
            IsBoundary(input[i]) => Exists(fs, ExpectedPath(input[i]))

\* C2: when the scan has completed, an output file that existed before the
\* run still starts with its previous content, and the segment of a boundary
\* line with that date has been appended after it.
C2_ExistingFileKeptAndAppended ==
    ScanCompleted =>
        \A i \in 1..Len(input) :
            (IsBoundary(input[i]) /\ Exists(fs0, ExpectedPath(input[i]))) =>
                LET p   == ExpectedPath(input[i])
                    old == fs0[p]
                IN  /\ Exists(fs, p)
                    /\ IsPrefix(old, fs[p])
                    /\ Occurs(RenderAll(SegmentBody(i)),
                              SubSeq(fs[p], Len(old) + 1, Len(fs[p])))
                    /\ Len(fs[p]) > Len(old)

\* C3: when the scan has completed, every content line that follows a
\* boundary line is in the output file of the nearest preceding boundary line
\* and in no other output file.
C3_ContentLineInItsSegmentFile ==
    ScanCompleted =>
        \A i \in 1..Len(input) :
            ContentLineAt(i) =>
                LET p == ExpectedPath(input[SegmentStart(i)])
                IN  /\ Exists(fs, p)
                    /\ Occurs(Render(input[i]), fs[p])
                    /\ \A q \in DOMAIN fs :
                          (q # p /\ Occurs(Render(input[i]), fs[q])) =>
                              \E k \in 1..Len(input) :
                                  /\ k # i /\ input[k] = input[i] /\ ContentLineAt(k)
                                  /\ ExpectedPath(input[SegmentStart(k)]) = q

\* C4: when the scan of an input whose matching lines all carry calendar dates
\* has completed, each content line occurs in the output files as many times
\* as it occurs as a content line of the input.
C4_RoundTripKeepsContentLines ==
    (ScanCompleted /\ \A i \in 1..Len(input) :
                          date_pattern(input[i]) => IsBoundary(input[i])) =>
        \A l \in { x \in Lines : ~x.bad /\ ~date_pattern(x) } :
            SumOver(DOMAIN fs, [q \in DOMAIN fs |-> CountOcc(Render(l), fs[q])])
              = Cardinality({ i \in 1..Len(input) : input[i] = l /\ ContentLineAt(i) })

C8_LaterSegmentsSurviveAFailedOpen ==
    pc = "done" =>
        \A i \in 1..Len(input) :
            (IsBoundary(input[i]) /\ ExpectedPath(input[i]) \in denied
               /\ \A k \in 1..Len(input) : ~input[k].bad) =>
                /\ caught \in {"none", "FileNotFoundError"}
                /\ caught = "none" =>
                     \A j \in (i + 1)..Len(input) :
                         (IsBoundary(input[j]) /\ ExpectedPath(input[j]) \notin denied)
                            => Exists(fs, ExpectedPath(input[j]))

\* C10: when the scan has completed, the output file of a date holds the
\* boundary line, " <user_info>: ", " <file name>: " and then the content lines
\* of the segment (the last segment of that date), in this order.
C10_OutputFileIsHeaderThenBody ==
    ScanCompleted =>
        \A j \in 1..Len(input) :
            (/\ IsBoundary(input[j])
             /\ \A k \in (j + 1)..Len(input) :
                   IsBoundary(input[k]) => ExpectedPath(input[k]) # ExpectedPath(input[j]))
            => LET p == ExpectedPath(input[j])
               IN  /\ Exists(fs, p)
                   /\ fs[p] = Render(input[j])
                              \o <<" ">> \o user_info \o <<":", " ">>
                              \o <<" ">> \o p[1] \o <<":", " ">>
                              \o RenderAll(SegmentBody(j))

(***************************************************************************)
(* journal_organizer.py: organize_and_merge_files_by_date.                 *)
(***************************************************************************)
IN_DIR == <<"i", "n">>
OUT_DIR == <<"o", "u", "t">>
SUB_DIR == <<"s">>
Y2024 == <<"2", "0", "2", "4">>
D1 == Y2024 \o <<"_", "0", "1", "_", "0", "2">>
MD == <<".", "m", "d">>
TXT == <<".", "t", "x", "t">>

\* the file names found in a scanned directory
SourceNames ==
    { <<"a", "_">> \o D1 \o MD,
      <<"b", "_">> \o D1 \o MD,
      <<"a", "_">> \o D1 \o TXT,
      D1 \o MD,
      <<"n">> \o MD }

\* the content of a source file: "a..." ends with a line terminator, "b..." does not
ContentOf(name) ==
    IF name[1] = "a" THEN <<"x", "\n">>
    ELSE IF name[1] = "b" THEN <<"y">>
    ELSE <<"z", "\n">>

OldContents == { <<"o", "\n">>, <<"o">> }

Min(S) == CHOOSE x \in S : \A y \in S : x <= y
Max(S) == CHOOSE x \in S : \A y \in S : y <= x

\* re.search(r'(\d{4})_(\d{2})_(\d{2})', filename); date_str = f"{year}_{month}_{day}"
DateSearch(name) ==
    LET hits == { i \in 1..(Len(name) - 9) :
                    /\ AllDigits(SubSeq(name, i, i + 3))
                    /\ name[i + 4] = "_"
                    /\ AllDigits(SubSeq(name, i + 5, i + 6))
                    /\ name[i + 7] = "_"
                    /\ AllDigits(SubSeq(name, i + 8, i + 9)) }
    IN  IF hits = {} THEN [ok |-> FALSE, year |-> <<>>, date_str |-> <<>>]
        ELSE [ok |-> TRUE,
              year |-> SubSeq(name, Min(hits), Min(hits) + 3),
              date_str |-> SubSeq(name, Min(hits), Min(hits) + 9)]

\* os.path.splitext: the extension starts at the last dot that has a
\* character other than a dot before it
Splitext(name) ==
    LET dots == { i \in 1..Len(name) :
                    name[i] = "." /\ \E j \in 1..(i - 1) : name[j] # "." }
    IN  IF dots = {} THEN [root |-> name, ext |-> <<>>]
        ELSE [root |-> SubSeq(name, 1, Max(dots) - 1),
              ext |-> SubSeq(name, Max(dots), Len(name))]

\* the name under which a whole file name is kept (what new_filename is not)
KeepFilename(filename) == filename

\* new_filename = f"{date_str}{extension}"
new_filename(filename) == DateSearch(filename).date_str \o Splitext(filename).ext

\* os.listdir(d): the names of the files and directories directly in d
ListDir(f, ds, d) ==
    { p[Len(p)] : p \in { q \in (DOMAIN f) \cup ds :
                            Len(q) = Len(d) + 1 /\ SubSeq(q, 1, Len(d)) = d } }

\* lines 73-77: a line terminator when the destination does not end with one
NewlineFix(dest) ==
    IF dest # <<>> /\ dest[Len(dest)] # "\n" THEN <<"\n">> ELSE <<>>

\* what reaches the disk of text t when a write fails: nothing, or all but the end
Partial(t, cut) == IF cut = 0 \/ t = <<>> THEN <<>> ELSE SubSeq(t, 1, Len(t) - 1)

\* the operation of one loop iteration that fails, if any: creating the year
\* folder, opening the destination or the source, reading the source, writing
\* to the destination (at the write or when the destination is closed),
\* removing the source, moving the source; cut says how much was written
OrgFailures ==
    { [op |-> "none", cut |-> 0], [op |-> "makedirs", cut |-> 0],
      [op |-> "open_dest", cut |-> 0], [op |-> "open_src", cut |-> 0],
      [op |-> "read", cut |-> 0], [op |-> "write", cut |-> 0],
      [op |-> "write", cut |-> 1], [op |-> "remove", cut |-> 0],
      [op |-> "close", cut |-> 0], [op |-> "close", cut |-> 1],
      [op |-> "move", cut |-> 0], [op |-> "move", cut |-> 1] }

Outcome(f, ds, w, mv, mg, sk, failed) ==
    [fs |-> f, dirs |-> ds, written |-> w, moved |-> mv, merged |-> mg,
     skipped |-> sk, failed |-> failed]

\* the body of "for filename in os.listdir(input_dir)" for one entry
OrganizeOne(filename, fail) ==
    LET original_filepath == input_dir \o <<filename>>
        match       == DateSearch(filename)
        year_folder == output_dir \o <<match.year>>
        new_filepath == year_folder \o <<new_filename(filename)>>
        mkdir       == year_folder \notin dirs /\ ~Exists(fs, year_folder)
        dirs1       == IF mkdir THEN dirs \cup {year_folder} ELSE dirs
        mv == moved_files_count
        mg == merged_files_count
        sk == skipped_files_count
    IN
    IF original_filepath \in dirs
      THEN Outcome(fs, dirs, written, mv, mg, sk, FALSE)                \* lines 41-42
    ELSE IF ~match.ok
      THEN Outcome(fs, dirs, written, mv, mg, sk + 1, FALSE)            \* lines 99-101
    ELSE IF mkdir /\ fail.op = "makedirs"
      THEN Outcome(fs, dirs, written, mv, mg, sk + 1, TRUE)             \* lines 96-98
    ELSE IF Exists(fs, new_filepath)
      THEN \* lines 66-89: merge
        IF fail.op = "open_dest"
          THEN Outcome(fs, dirs1, written, mv, mg, sk + 1, TRUE)
        ELSE IF fail.op = "open_src" \/ ~Exists(fs, original_filepath)
          THEN Outcome(fs, dirs1, written, mv, mg, sk + 1, TRUE)
        ELSE
          LET dest    == fs[new_filepath]
              nl      == NewlineFix(dest)
              content_to_append == fs[original_filepath]
              pending == nl \o content_to_append
              w1      == written \cup {new_filepath}
          IN
          IF fail.op = "read"
            \* src_file.read() raises; the line terminator is flushed at close
            THEN Outcome(Put(fs, new_filepath, dest \o nl), dirs1, w1,
                         mv, mg, sk + 1, TRUE)
          ELSE IF fail.op = "write"
            \* dest_file.write raises
            THEN Outcome(Put(fs, new_filepath, dest \o Partial(pending, fail.cut)),
                         dirs1, w1, mv, mg, sk + 1, TRUE)
          ELSE IF fail.op = "remove"
            \* os.remove raises; the buffered text is flushed at close
            THEN Outcome(Put(fs, new_filepath, dest \o pending), dirs1, w1,
                         mv, mg, sk + 1, TRUE)
          ELSE IF fail.op = "close"
            \* line 84 has removed the source and line 86 has counted the merge
            \* when leaving "with ... as dest_file" flushes the buffer and raises
            THEN Outcome(IF original_filepath = new_filepath
                           THEN Del(fs, original_filepath)
                           ELSE Put(Del(fs, original_filepath), new_filepath,
                                    dest \o Partial(pending, fail.cut)),
                         dirs1, w1, mv, mg + 1, sk + 1, TRUE)
          ELSE Outcome(IF original_filepath = new_filepath
                         THEN Del(fs, original_filepath)
                         ELSE Put(Del(fs, original_filepath), new_filepath,
                                  dest \o pending),
                       dirs1, w1, mv, mg + 1, sk, FALSE)
    ELSE \* lines 90-94: move
        IF ~Exists(fs, original_filepath)
          THEN Outcome(fs, dirs1, written, mv, mg, sk + 1, TRUE)
        ELSE IF fail.op = "move"
          \* shutil.move raises, before or while copying to another file system
          THEN Outcome(IF fail.cut = 0 THEN fs
                       ELSE Put(fs, new_filepath,
                                Partial(fs[original_filepath], fail.cut)),
                       dirs1,
                       IF fail.cut = 0 THEN written ELSE written \cup {new_filepath},
                       mv, mg, sk + 1, TRUE)
        ELSE Outcome(Put(Del(fs, original_filepath), new_filepath,
                         fs[original_filepath]),
                     dirs1, written \cup {new_filepath}, mv + 1, mg, sk, FALSE)

ProcessEntry ==
    /\ pc = "organize"
    /\ \E filename \in todo, fail \in OrgFailures :
         /\ fail.op # "none" => errors < MaxErrors
         /\ \E r \in {OrganizeOne(filename, fail)} :
                /\ fail.op # "none" => r.failed
                /\ fs' = r.fs
                /\ dirs' = r.dirs
                /\ written' = r.written
                /\ moved_files_count' = r.moved
                /\ merged_files_count' = r.merged
                /\ skipped_files_count' = r.skipped
                /\ errors' = IF r.failed THEN errors + 1 ELSE errors
         /\ todo' = todo \ {filename}
    /\ UNCHANGED <<dvars, pc, fs0, denied, svars, wvars, input_dir, output_dir, run, snap,
                   processed_successfully>>

\* the script is started again on the same directories: os.listdir again
SecondRun ==
    /\ pc = "organize"
    /\ todo = {}
    /\ run = 1
    /\ run' = 2
    /\ snap' = [files |-> fs, clean |-> errors = 0]
    /\ todo' = ListDir(fs, dirs, input_dir)
    /\ moved_files_count' = 0
    /\ merged_files_count' = 0
    /\ skipped_files_count' = 0
    /\ UNCHANGED <<dvars, pc, fs, dirs, fs0, denied, svars, wvars, input_dir, output_dir, written,
                   errors, processed_successfully>>

SplitterIdle ==
    /\ input = <<>>
    /\ idx = 0
    /\ handler = NoHandler
    /\ current_output_filename = <<>>
    /\ lines_for_current_segment = <<>>
    /\ openFiles = {}
    /\ caught = "none"
    /\ denied = {}

FilesIn(d, names) == [p \in { d \o <<n>> : n \in names } |-> ContentOf(p[Len(p)])]

Merged2(f, g) == [p \in (DOMAIN f) \cup (DOMAIN g) |-> IF p \in DOMAIN f THEN f[p] ELSE g[p]]

\* the input directory is apart from the output directory, or it is the
\* output directory's folder of the year 2024
InitOrganizer ==
    /\ DiarizeIdle
    /\ pc = "organize"
    /\ SplitterIdle
    /\ WalkIdle
    /\ output_dir = <<OUT_DIR>>
    /\ \E alias \in BOOLEAN, names \in SUBSET SourceNames,
          old \in {<<>>} \cup OldContents :
         /\ Cardinality(names) \in 1..MaxFiles
         /\ alias => old = <<>>
         /\ input_dir = IF alias THEN <<OUT_DIR, Y2024>> ELSE <<IN_DIR>>
         /\ fs = Merged2(FilesIn(input_dir, names),
                         IF old = <<>> THEN NoFiles
                         ELSE [p \in {<<OUT_DIR, Y2024, D1 \o MD>>} |-> old])
         /\ dirs = {input_dir, output_dir, input_dir \o <<SUB_DIR>>}
                     \cup (IF old = <<>> THEN {} ELSE {<<OUT_DIR, Y2024>>})
    /\ fs0 = fs
    /\ todo = ListDir(fs, dirs, input_dir)
    /\ written = {}
    /\ run = 1
    /\ snap = [files |-> NoFiles, clean |-> FALSE]
    /\ errors = 0
    /\ moved_files_count = 0
    /\ merged_files_count = 0
    /\ skipped_files_count = 0
    /\ processed_successfully = 0

NextOrganizer == ProcessEntry \/ SecondRun

SpecOrganizer == InitOrganizer /\ [][NextOrganizer]_vars

(***************************************************************************)
(* journal_converter.py: process_files_in_directory.                       *)
(***************************************************************************)
D2 == Y2024 \o <<"_", "0", "1", "_", "0", "3">>

\* the dates get_file_creation_date can return for a file (YYYY_MM_DD)
CreationDates == {D1, D2}

\* str.lower() on the characters that occur in the names
Lower(t) ==
    [i \in 1..Len(t) |->
        CASE t[i] = "A" -> "a" [] t[i] = "B" -> "b" [] t[i] = "M" -> "m"
          [] t[i] = "D" -> "d" [] t[i] = "N" -> "n" [] t[i] = "T" -> "t"
          [] t[i] = "X" -> "x" [] OTHER -> t[i]]

LowerPath(p) == [i \in 1..Len(p) |-> Lower(p[i])]

\* header_line, ext_part = os.path.splitext(f"# {original_filename}\n")
header_line(original_filename) ==
    Splitext(<<"#", " ">> \o original_filename \o <<"\n">>).root

\* the text written back at line 104
WithHeader(original_filename, content) ==
    header_line(original_filename) \o <<"\n">> \o content

\* current_file_content after lines 102-110: the header is joined to the
\* content without the line terminator that line 104 writes to the file
InMemoryContent(original_filename, content) ==
    IF IsPrefix(header_line(original_filename), content) THEN content
    ELSE header_line(original_filename) \o content

\* lines 23-58: the name without its extension and without a trailing
\* _YYYY_MM_DD that strptime(..., '%Y_%m_%d') accepts
get_base_name_and_ext_from_filename(filename) ==
    LET name_part_full == Splitext(filename).root
        ext_part == Splitext(filename).ext
        n        == Len(name_part_full)
        tail     == SubSeq(name_part_full, n - 10, n)
        dated    == /\ n >= 11
                    /\ tail[1] = "_"
                    /\ AllDigits(SubSeq(tail, 2, 5))
                    /\ tail[6] = "_"
                    /\ AllDigits(SubSeq(tail, 7, 8))
                    /\ tail[9] = "_"
                    /\ AllDigits(SubSeq(tail, 10, 11))
                    /\ Strptime(SubSeq(tail, 2, 5) \o <<"-">> \o SubSeq(tail, 7, 8)
                                \o <<"-">> \o SubSeq(tail, 10, 11)).ok
    IN  [base_name |-> IF dated THEN SubSeq(name_part_full, 1, n - 11)
                       ELSE name_part_full,
         ext_part |-> ext_part]

\* the target name the docstring at lines 62-67 gives: 'BaseName_CreationDate.ext'
\* (what target_filename is not)
BaseNameTarget(original_filename, date_str) ==
    get_base_name_and_ext_from_filename(original_filename).base_name
        \o <<"_">> \o date_str
        \o get_base_name_and_ext_from_filename(original_filename).ext_part

\* target_filename = f"{file_creation_date_str}{ext_part}"
target_filename(original_filename, date_str) ==
    date_str \o Splitext(original_filename).ext

\* lines 148-152; the time of the merge is written as "now"
merge_marker(original_filename, date_str) ==
    <<"\n", "\n", "# --- Merged content from: ">> \o original_filename
    \o <<" (Source file's creation date: ">> \o date_str
    \o <<", Merge performed on: ", "now", ") ---", "\n">>

\* the operation of one loop iteration that fails, if any: reading the file,
\* rewriting it with the header, finding the creation date, opening the
\* target, writing to the target, removing the original, renaming it
ConvFailures ==
    { [op |-> "none", cut |-> 0], [op |-> "read", cut |-> 0],
      [op |-> "header", cut |-> 0], [op |-> "header", cut |-> 1],
      [op |-> "stat", cut |-> 0], [op |-> "open_dest", cut |-> 0],
      [op |-> "write", cut |-> 0], [op |-> "write", cut |-> 1],
      [op |-> "remove", cut |-> 0], [op |-> "rename", cut |-> 0] }

ConvOutcome(f, w, done, failed) ==
    [fs |-> f, written |-> w, processed |-> done, failed |-> failed]

\* the body of "for ... in enumerate(files_to_process)" for one file
ConvertOne(original_filepath, date_str, fail) ==
    LET original_filename == original_filepath[Len(original_filepath)]
        original_dirname  == SubSeq(original_filepath, 1, Len(original_filepath) - 1)
        n == processed_successfully
    IN
    IF ~Exists(fs, original_filepath) \/ fail.op = "read"
      THEN ConvOutcome(fs, written, n, TRUE)                            \* lines 113-118
    ELSE
    LET content  == fs[original_filepath]
        has      == IsPrefix(header_line(original_filename), content)
        current_file_content == InMemoryContent(original_filename, content)
        fs1      == IF has THEN fs
                    ELSE Put(fs, original_filepath,
                             WithHeader(original_filename, content))
        target_filepath ==
            original_dirname \o <<target_filename(original_filename, date_str)>>
    IN
    IF ~has /\ fail.op = "header"
      \* open(..., 'w') has truncated the file when the write raises
      THEN ConvOutcome(Put(fs, original_filepath,
                           Partial(WithHeader(original_filename, content), fail.cut)),
                       written, n, TRUE)
    ELSE IF fail.op = "stat"
      THEN ConvOutcome(fs1, written, n, TRUE)                           \* lines 131-133
    ELSE IF LowerPath(original_filepath) = LowerPath(target_filepath)
      THEN ConvOutcome(fs1, written, n + 1, FALSE)                      \* lines 138-141
    ELSE IF Exists(fs1, target_filepath)
      THEN \* lines 144-160: merge
        LET dest     == fs1[target_filepath]
            appended == merge_marker(original_filename, date_str)
                          \o current_file_content
            w1       == written \cup {target_filepath}
        IN
        IF fail.op = "open_dest"
          THEN ConvOutcome(fs1, written, n, TRUE)
        ELSE IF fail.op = "write"
          THEN ConvOutcome(Put(fs1, target_filepath,
                               dest \o Partial(appended, fail.cut)), w1, n, TRUE)
        ELSE IF fail.op = "remove"
          THEN ConvOutcome(Put(fs1, target_filepath, dest \o appended), w1, n, TRUE)
        ELSE ConvOutcome(Put(Del(fs1, original_filepath), target_filepath,
                             dest \o appended), w1, n + 1, FALSE)
    ELSE \* lines 163-166: rename
        IF fail.op = "rename"
          THEN ConvOutcome(fs1, written, n, TRUE)
        ELSE ConvOutcome(Put(Del(fs1, original_filepath), target_filepath,
                             fs1[original_filepath]),
                         written \cup {target_filepath}, n + 1, FALSE)

ProcessFile ==
    /\ pc = "convert"
    /\ \E original_filepath \in todo, date_str \in CreationDates,
          fail \in ConvFailures :
         /\ fail.op # "none" => errors < MaxErrors
         /\ \E r \in {ConvertOne(original_filepath, date_str, fail)} :
                /\ fail.op # "none" => r.failed
                /\ fs' = r.fs
                /\ written' = r.written
                /\ processed_successfully' = r.processed
                /\ errors' = IF r.failed THEN errors + 1 ELSE errors
         /\ todo' = todo \ {original_filepath}
    /\ UNCHANGED <<dvars, pc, dirs, fs0, denied, svars, wvars, input_dir, output_dir, run, snap,
                   moved_files_count, merged_files_count, skipped_files_count>>

\* Pass 1 (lines 73-80): the files under directory_path
FilesToProcess(f, d) == { p \in DOMAIN f : Len(p) > Len(d) /\ SubSeq(p, 1, Len(d)) = d }

\* the script is started again on the same directory
SecondConversion ==
    /\ pc = "convert"
    /\ todo = {}
    /\ run = 1
    /\ run' = 2
    /\ snap' = [files |-> fs, clean |-> errors = 0]
    /\ todo' = FilesToProcess(fs, input_dir)
    /\ processed_successfully' = 0
    /\ UNCHANGED <<dvars, pc, fs, dirs, fs0, denied, svars, wvars, input_dir, output_dir, written,
                   errors, moved_files_count, merged_files_count, skipped_files_count>>

InitConverter ==
    /\ DiarizeIdle
    /\ pc = "convert"
    /\ SplitterIdle
    /\ WalkIdle
    /\ input_dir = <<IN_DIR>>
    /\ output_dir = <<>>
    /\ \E names \in SUBSET SourceNames :
         /\ Cardinality(names) \in 1..MaxFiles
         /\ fs = FilesIn(input_dir, names)
    /\ dirs = {input_dir}
    /\ fs0 = fs
    /\ todo = FilesToProcess(fs, input_dir)
    /\ written = {}
    /\ run = 1
    /\ snap = [files |-> NoFiles, clean |-> FALSE]
    /\ errors = 0
    /\ moved_files_count = 0
    /\ merged_files_count = 0
    /\ skipped_files_count = 0
    /\ processed_successfully = 0

NextConverter == ProcessFile \/ SecondConversion

SpecConverter == InitConverter /\ [][NextConverter]_vars

\* either journal script, run on its directories
InitJournal == InitOrganizer \/ InitConverter

NextJournal == NextOrganizer \/ NextConverter

SpecJournal == InitJournal /\ [][NextJournal]_vars

(***************************************************************************)
(* Claims about organize_and_merge_files_by_date.                          *)
(***************************************************************************)
\* the destination the organizer computes for a source path
DestinationOf(src) ==
    output_dir \o <<DateSearch(src[Len(src)]).year>> \o <<new_filename(src[Len(src)])>>

\* C6: a step that deletes a source file whose destination existed has
\* appended the whole content of the source to the destination (after a line
\* terminator when the destination lacked one).
C6_SourceDeletedOnlyAfterFullAppend ==
    [][ pc = "organize" =>
          \A src \in (DOMAIN fs) \ (DOMAIN fs') :
              (Exists(fs, DestinationOf(src)) /\ DestinationOf(src) # src) =>
                  /\ Exists(fs', DestinationOf(src))
                  /\ fs'[DestinationOf(src)] =
                        fs[DestinationOf(src)] \o NewlineFix(fs[DestinationOf(src)])
                                               \o fs[src] ]_vars

\* C9: in a second run after a first run without error nothing is moved,
\* nothing is merged and every file is what it was when the first run ended.
C9_SecondRunChangesNothing ==
    (pc = "organize" /\ run = 2 /\ snap.clean) =>
        /\ moved_files_count = 0
        /\ merged_files_count = 0
        /\ fs = snap.files

(***************************************************************************)
(* Claims about the output files of both journal scripts.                  *)
(***************************************************************************)
\* the files that exist and were written as the destination of a move,
\* rename or merge
OutputFiles == written \cap DOMAIN fs

DirOf(p) == SubSeq(p, 1, Len(p) - 1)

DateKeyOf(p) == DateSearch(p[Len(p)]).date_str

F == <<"f">>
A == <<"a">>
B == <<"b">>
E == <<"e">>

\* p lies below directory d
IsUnder(d, p) == Len(p) > Len(d) /\ SubSeq(p, 1, Len(d)) = d

\* os.path.exists
PathExists(f, ds, p) == p \in DOMAIN f \/ p \in ds

\* filenames and dirnames of a tuple that os.walk yields for directory d
ChildFiles(f, d) == { p \in DOMAIN f : Len(p) = Len(d) + 1 /\ IsUnder(d, p) }
ChildDirs(ds, d) == { p \in ds : Len(p) = Len(d) + 1 /\ IsUnder(d, p) }

\* os.path.relpath(dirpath, input_dir) and os.path.join(output_dir, ...)
relative_path(d) == SubSeq(d, Len(input_dir) + 1, Len(d))
output_subdir(d) == output_dir \o relative_path(d)

\* the directories os.makedirs(p) has to find or create: p and what is above it
Ancestors(p) == { SubSeq(p, 1, k) : k \in 1..Len(p) }

\* what os.path.getsize can report for a directory
DirSizes == {1, 2}

\* os.path.getsize
Sizes(f, p) == IF p \in DOMAIN f THEN {Len(f[p])} ELSE DirSizes

\* shutil.move(src, dst): into dst when dst is a directory, else onto dst;
\* ok is FALSE when it raises (the name is taken inside the directory dst, or
\* dst has no directory to be in)
Move(f, ds, src, dst) ==
    LET real_dst == IF dst \in ds THEN dst \o <<src[Len(src)]>> ELSE dst
        parent   == SubSeq(real_dst, 1, Len(real_dst) - 1)
    IN  IF (dst \in ds /\ PathExists(f, ds, real_dst)) \/ parent \notin ds
          THEN [ok |-> FALSE, fs |-> f]
          ELSE [ok |-> TRUE, fs |-> Put(Del(f, src), real_dst, f[src])]

\* the operation of one inner loop iteration that fails, if any
MergeFailures == {"none", "getsize", "remove", "move"}

\* lines 21-33: os.walk yields the next directory of input_dir, top down, and
\* the matching directory of output_dir is created; os.makedirs is outside
\* every try block, so its exception ends the function
VisitInputDir ==
    /\ pc = "merge"
    /\ filenames = {}
    /\ \E d \in walk, fail \in BOOLEAN :
         LET sub     == output_subdir(d)
             missing == ~PathExists(fs, dirs, sub)
             blocked == \E a \in Ancestors(sub) : a \in DOMAIN fs
         IN  /\ fail => (missing /\ ~blocked /\ errors < MaxErrors)
             /\ IF missing /\ (blocked \/ fail)
                  THEN /\ pc' = "crashed"
                       /\ errors' = errors + 1
                       /\ UNCHANGED <<dvars, dirs, walk, dirpath, filenames>>
                  ELSE /\ dirs' = IF missing THEN dirs \cup Ancestors(sub) ELSE dirs
                       /\ walk' = (walk \ {d}) \cup ChildDirs(dirs, d)
                       /\ dirpath' = d
                       /\ filenames' = ChildFiles(fs, d)
                       /\ UNCHANGED <<dvars, pc, errors>>
    /\ UNCHANGED <<dvars, fs, fs0, denied, svars, input_dir, output_dir, todo, written,
                   run, snap, moved_files_count, merged_files_count,
                   skipped_files_count, processed_successfully, stack, root_sep, deleted_dirs_count>>

\* lines 36-61: one file of the directory yielded last
CompareAndProcess ==
    /\ pc = "merge"
    /\ \E input_file_path \in filenames, fail \in MergeFailures :
         LET filename         == input_file_path[Len(input_file_path)]
             output_file_path == output_subdir(dirpath) \o <<filename>>
             found            == PathExists(fs, dirs, output_file_path)
         IN  /\ fail # "none" => errors < MaxErrors
             /\ fail = "getsize" => found
             /\ \E input_file_size \in Sizes(fs, input_file_path),
                   output_file_size \in Sizes(fs, output_file_path) :
                  LET same == found /\ input_file_size = output_file_size
                      mv   == Move(fs, dirs, input_file_path, output_file_path)
                  IN  /\ fail = "remove" => same
                      /\ fail = "move" => (~same /\ mv.ok)
                      /\ IF fail # "none"
                           THEN fs' = fs /\ errors' = errors + 1
                         ELSE IF same
                           THEN fs' = Del(fs, input_file_path) /\ errors' = errors
                         ELSE /\ fs' = mv.fs
                              /\ errors' = IF mv.ok THEN errors ELSE errors + 1
             /\ filenames' = filenames \ {input_file_path}
    /\ UNCHANGED <<dvars, pc, dirs, fs0, denied, svars, input_dir, output_dir, todo, written,
                   run, snap, moved_files_count, merged_files_count,
                   skipped_files_count, processed_successfully, walk, dirpath,
                   stack, root_sep, deleted_dirs_count>>

\* line 65: os.walk(input_dir, topdown=False) lists a directory before it
\* walks the directories below it and yields it after them, so every tuple
\* holds the entries the directory had when the clean-up began
StartCleanUp ==
    /\ pc = "merge"
    /\ walk = {}
    /\ filenames = {}
    /\ pc' = "cleanup"
    /\ walk' = { [dirpath |-> d, dirnames |-> ChildDirs(dirs, d),
                  filenames |-> ChildFiles(fs, d)] :
                 d \in { x \in dirs : x = input_dir \/ IsUnder(input_dir, x) } }
    /\ UNCHANGED <<dvars, fs, dirs, fs0, denied, svars, jvars, dirpath, filenames,
                   stack, root_sep, deleted_dirs_count>>

\* lines 65-71: the next tuple, bottom up
RemoveIfEmpty ==
    /\ pc = "cleanup"
    /\ \E t \in walk, fail \in BOOLEAN :
         /\ \A u \in walk : ~IsUnder(t.dirpath, u.dirpath)
         /\ fail => (t.dirnames = {} /\ t.filenames = {} /\ errors < MaxErrors)
         /\ dirs' = IF t.dirnames = {} /\ t.filenames = {} /\ ~fail
                      THEN dirs \ {t.dirpath} ELSE dirs
         /\ errors' = IF fail THEN errors + 1 ELSE errors
         /\ walk' = walk \ {t}
         /\ dirpath' = t.dirpath
         /\ pc' = IF walk \ {t} = {} THEN "merged" ELSE "cleanup"
    /\ UNCHANGED <<dvars, fs, fs0, denied, svars, input_dir, output_dir, todo, written,
                   run, snap, moved_files_count, merged_files_count,
                   skipped_files_count, processed_successfully, filenames,
                   stack, root_sep, deleted_dirs_count>>

\* the files of the input tree: in/f, in/a/f, in/a/b/f
MergerInputFiles == { <<IN_DIR, F>>, <<IN_DIR, A, F>>, <<IN_DIR, A, B, F>> }

MergerInputContent(p) == IF Len(p) = 3 THEN <<"y", "y">> ELSE <<"x">>

\* directories of the input tree that hold no file
MergerInputDirs ==
    { {}, {<<IN_DIR, E>>}, {<<IN_DIR, A>>}, {<<IN_DIR, A>>, <<IN_DIR, A, B>>},
      {<<IN_DIR, A>>, <<IN_DIR, A, B>>, <<IN_DIR, E>>} }

Tree(f, ds) == [files |-> f, dirs |-> ds]

OneFile(p, content) == [q \in {p} |-> content]

\* what the output tree holds before the run
MergerOutputTrees ==
    { Tree(NoFiles, {}),
      Tree(NoFiles, {<<OUT_DIR>>}),
      Tree(OneFile(<<OUT_DIR, F>>, <<"x">>), {<<OUT_DIR>>}),
      Tree(OneFile(<<OUT_DIR, F>>, <<"z">>), {<<OUT_DIR>>}),
      Tree(OneFile(<<OUT_DIR, F>>, <<"y", "y">>), {<<OUT_DIR>>}),
      Tree(NoFiles, {<<OUT_DIR>>, <<OUT_DIR, F>>}),
      Tree(OneFile(<<OUT_DIR, F, F>>, <<"q">>), {<<OUT_DIR>>, <<OUT_DIR, F>>}),
      Tree(OneFile(<<OUT_DIR, A, F>>, <<"y", "y">>), {<<OUT_DIR>>, <<OUT_DIR, A>>}),
      Tree(OneFile(<<OUT_DIR, A, F>>, <<"x">>), {<<OUT_DIR>>, <<OUT_DIR, A>>}),
      Tree(OneFile(<<OUT_DIR, A>>, <<"x">>), {<<OUT_DIR>>}) }

InitMerger ==
    /\ DiarizeIdle
    /\ pc = "merge"
    /\ SplitterIdle
    /\ input_dir = <<IN_DIR>>
    /\ output_dir = <<OUT_DIR>>
    /\ \E files \in SUBSET MergerInputFiles, empty \in MergerInputDirs,
          out \in MergerOutputTrees :
         /\ Cardinality(files) <= MaxFiles
         /\ fs = Merged2([p \in files |-> MergerInputContent(p)], out.files)
         /\ dirs = {input_dir} \cup empty \cup out.dirs
                     \cup UNION { Ancestors(SubSeq(p, 1, Len(p) - 1)) : p \in files }
    /\ fs0 = fs
    /\ walk = {input_dir}
    /\ dirpath = <<>>
    /\ filenames = {}
    /\ stack = <<>>
    /\ root_sep = FALSE
    /\ deleted_dirs_count = 0
    /\ todo = {}
    /\ written = {}
    /\ run = 1
    /\ snap = [files |-> NoFiles, clean |-> FALSE]
    /\ errors = 0
    /\ moved_files_count = 0
    /\ merged_files_count = 0
    /\ skipped_files_count = 0
    /\ processed_successfully = 0

NextMerger == VisitInputDir \/ CompareAndProcess \/ StartCleanUp \/ RemoveIfEmpty

SpecMerger == InitMerger /\ [][NextMerger]_vars

(***************************************************************************)
(* Claims about a merge into an existing destination file.                 *)
(***************************************************************************)
Contains(t, name) ==
    \E i \in 1..(Len(t) - Len(name) + 1) : SubSeq(t, i, i + Len(name) - 1) = name

\* the content of the source file when it is appended: the converter has
\* written the header line into the file before it merges
SourceTextAtMerge(name, content) ==
    IF pc = "convert" /\ ~IsPrefix(header_line(name), content)
      THEN WithHeader(name, content)
      ELSE content

\* new is old, a line terminator if old lacked one, a marker that names the
\* source and the time of the merge, and then the text of the source
MergedAsDescribed(old, name, text, new) ==
    /\ Len(new) >= Len(old) + Len(text)
    /\ IsPrefix(old, new)
    /\ SubSeq(new, Len(new) - Len(text) + 1, Len(new)) = text
    /\ LET middle == SubSeq(new, Len(old) + 1, Len(new) - Len(text))
       IN  /\ IsPrefix(NewlineFix(old), middle)
           /\ Contains(middle, name)
           /\ \E i \in 1..Len(middle) : middle[i] = "now"

\* C11: a step without failure that deletes a source file and changes a file
\* that existed before leaves in that file its previous content, a line
\* terminator if that content lacked one, a merge marker naming the source
\* file and the merge time, and then the content of the source.
C11_MergeKeepsOldThenMarkerThenSource ==
    [][ errors' = errors =>
          \A src \in (DOMAIN fs) \ (DOMAIN fs') :
            \A dst \in (DOMAIN fs) \cap (DOMAIN fs') :
              fs'[dst] # fs[dst] =>
                 MergedAsDescribed(fs[dst], src[Len(src)],
                                   SourceTextAtMerge(src[Len(src)], fs[src]),
                                   fs'[dst]) ]_vars

(***************************************************************************)
(* Claims about compare_and_process_dirs.                                  *)
(***************************************************************************)
\* the run has ended and no operation has failed
MergedWithoutError == pc = "merged" /\ errors = 0

\* the path in output_dir that matches path p of input_dir
Counterpart(p) == output_dir \o SubSeq(p, Len(input_dir) + 1, Len(p))

\* C13: after a run without error no file remains under input_dir, and for
\* every file that was in input_dir the matching path of output_dir holds a
\* file of the same size: the file that was there when it had the same size,
\* the input file in every other case.
C13_InputFilesEndInOutput ==
    MergedWithoutError =>
        /\ \A p \in DOMAIN fs : ~IsUnder(input_dir, p)
        /\ \A p \in DOMAIN fs0 :
              IsUnder(input_dir, p) =>
                 LET q == Counterpart(p)
                 IN  /\ q \in DOMAIN fs
                     /\ Len(fs[q]) = Len(fs0[p])
                     /\ fs[q] = IF q \in DOMAIN fs0 /\ Len(fs0[q]) = Len(fs0[p])
                                  THEN fs0[q] ELSE fs0[p]

\* C20: after a run without error no directory of the input tree is empty.
C20_NoEmptyInputDirectoryRemains ==
    MergedWithoutError =>
        \A d \in dirs :
            (d = input_dir \/ IsUnder(input_dir, d)) =>
                (ChildDirs(dirs, d) # {} \/ ChildFiles(fs, d) # {})

(***************************************************************************)
(* Claims about the names process_files_in_directory gives.                *)
(***************************************************************************)
\* C14: a step that counts a file as processed leaves, in the directory of
\* that file, a file named BaseName_CreationDate.ext for the base name and
\* the extension of the processed file and a creation date.
C14_RenamedToBaseNameAndCreationDate ==
    [][ (pc = "convert" /\ processed_successfully' = processed_successfully + 1) =>
          \A original_filepath \in todo \ todo' :
            \E date_str \in CreationDates :
               Exists(fs', DirOf(original_filepath)
                            \o <<BaseNameTarget(original_filepath[Len(original_filepath)],
                                                date_str)>>) ]_vars

(***************************************************************************)
(* extension_based_splitter.py: organize_files_by_extension.               *)
(***************************************************************************)
R == <<"r">>
EXT_MD == <<"m", "d">>
EXT_TXT == <<"t", "x", "t">>
PY == <<".", "p", "y">>

root_folder == <<R>>

extensions_to_organize == <<EXT_MD, EXT_TXT>>

Extensions == { extensions_to_organize[i] : i \in 1..Len(extensions_to_organize) }

\* filename.split('.')[-1].lower()
file_extension(filename) ==
    LET dots == { i \in 1..Len(filename) : filename[i] = "." }
    IN  Lower(IF dots = {} THEN filename
              ELSE SubSeq(filename, Max(dots) + 1, Len(filename)))

\* a target path that is taken as it is (what FreeTarget is not)
KeepTarget(f, ds, original_target_file_path, target_file_path, counter) ==
    target_file_path

\* lines 49-54: while os.path.exists(target_file_path), try name_counter.ext
RECURSIVE FreeTarget(_, _, _, _, _)
FreeTarget(f, ds, original_target_file_path, target_file_path, counter) ==
    IF PathExists(f, ds, target_file_path)
      THEN LET last == original_target_file_path[Len(original_target_file_path)]
               name == Splitext(last).root
               ext  == Splitext(last).ext
           IN  FreeTarget(f, ds, original_target_file_path,
                          DirOf(original_target_file_path)
                             \o <<name \o <<"_">> \o ZeroPad(counter, 1) \o ext>>,
                          counter + 1)
      ELSE target_file_path

\* what os.walk(root_folder, topdown=False) keeps of a directory it has
\* listed: its files, and the directories below it that it still has to walk
Frame(f, ds, d) ==
    [dirpath |-> d,
     filenames |-> { p[Len(p)] : p \in ChildFiles(f, d) },
     pending |-> ChildDirs(ds, d)]

Top(st) == st[Len(st)]
Pop(st) == SubSeq(st, 1, Len(st) - 1)

\* lines 13-35: the target folders are created (the function returns when
\* one cannot be created, failAt naming it) and os.walk lists root_folder
CreateTargetFolders ==
    /\ pc = "ext_start"
    /\ \E failAt \in 0..Len(extensions_to_organize) :
         LET target_ext_folder(i) == root_folder \o <<extensions_to_organize[i]>>
             reached == IF failAt = 0 THEN Len(extensions_to_organize) ELSE failAt - 1
             created == { target_ext_folder(i) : i \in
                            { j \in 1..reached :
                                ~PathExists(fs, dirs, target_ext_folder(j)) } }
         IN  /\ failAt > 0 => /\ errors < MaxErrors
                              /\ ~PathExists(fs, dirs, target_ext_folder(failAt))
             /\ dirs' = dirs \cup created
             /\ errors' = IF failAt > 0 THEN errors + 1 ELSE errors
             /\ pc' = IF failAt > 0 THEN "ext_done" ELSE "ext_walk"
             /\ stack' = IF failAt > 0 THEN <<>>
                         ELSE <<Frame(fs, dirs \cup created, root_folder)>>
    /\ UNCHANGED <<dvars, fs, fs0, denied, svars, input_dir, output_dir, todo, written,
                   run, snap, moved_files_count, merged_files_count,
                   skipped_files_count, processed_successfully, walk, dirpath,
                   filenames, root_sep, deleted_dirs_count>>

\* line 35, inside os.walk: the next directory below the one on top is listed
WalkInto ==
    /\ pc = "ext_walk"
    /\ stack # <<>>
    /\ \E d \in Top(stack).pending :
         stack' = Append([stack EXCEPT ![Len(stack)].pending = @ \ {d}],
                         Frame(fs, dirs, d))
    /\ UNCHANGED <<dvars, pc, fs, dirs, fs0, denied, svars, jvars, walk, dirpath,
                   filenames, root_sep, deleted_dirs_count>>

\* lines 35-38: os.walk yields the directory on top, after all below it; the
\* target folders at the root level are skipped. os.path.dirname(dirpath) is
\* root_folder without a trailing separator
YieldDir ==
    /\ pc = "ext_walk"
    /\ stack # <<>>
    /\ Top(stack).pending = {}
    /\ LET t    == Top(stack)
           skip == /\ t.dirpath[Len(t.dirpath)] \in Extensions
                   /\ DirOf(t.dirpath) = root_folder
                   /\ ~root_sep
       IN  /\ dirpath' = t.dirpath
           /\ stack' = Pop(stack)
           /\ filenames' = IF skip THEN {} ELSE t.filenames
           /\ pc' = IF ~skip THEN "ext_files"
                    ELSE IF Pop(stack) = <<>> THEN "ext_done" ELSE "ext_walk"
    /\ UNCHANGED <<dvars, fs, dirs, fs0, denied, svars, jvars, walk, root_sep,
                   deleted_dirs_count>>

\* lines 40-61: one file of the yielded directory
MoveByExtension ==
    /\ pc = "ext_files"
    /\ \E filename \in filenames, fail \in BOOLEAN :
         LET source_file_path      == dirpath \o <<filename>>
             target_folder_for_ext == root_folder \o <<file_extension(filename)>>
             original_target_file_path == target_folder_for_ext \o <<filename>>
             target_file_path ==
                 FreeTarget(fs, dirs, original_target_file_path,
                            original_target_file_path, 1)
             mv == IF Exists(fs, source_file_path)
                     THEN Move(fs, dirs, source_file_path, target_file_path)
                     ELSE [ok |-> FALSE, fs |-> fs]
         IN  /\ fail => /\ errors < MaxErrors
                        /\ file_extension(filename) \in Extensions
                        /\ mv.ok
             /\ IF file_extension(filename) \notin Extensions
                  THEN UNCHANGED <<dvars, fs, moved_files_count, errors>>
                ELSE IF fail \/ ~mv.ok
                  THEN /\ errors' = errors + 1
                       /\ UNCHANGED <<dvars, fs, moved_files_count>>
                ELSE /\ fs' = mv.fs
                     /\ moved_files_count' = moved_files_count + 1
                     /\ errors' = errors
             /\ filenames' = filenames \ {filename}
    /\ UNCHANGED <<dvars, pc, dirs, fs0, denied, svars, input_dir, output_dir, todo, written,
                   run, snap, merged_files_count, skipped_files_count,
                   processed_successfully, walk, dirpath, stack, root_sep,
                   deleted_dirs_count>>

\* lines 63-80: after the files of a directory, the directory is removed when
\* it is empty, is not root_folder and is not named like an extension
RemoveDirIfEmpty ==
    /\ pc = "ext_files"
    /\ filenames = {}
    /\ \E fail \in BOOLEAN :
         LET removable == /\ dirpath # root_folder
                          /\ ChildFiles(fs, dirpath) = {}
                          /\ ChildDirs(dirs, dirpath) = {}
                          /\ dirpath[Len(dirpath)] \notin Extensions
         IN  /\ fail => (removable /\ errors < MaxErrors)
             /\ dirs' = IF removable /\ ~fail THEN dirs \ {dirpath} ELSE dirs
             /\ deleted_dirs_count' = IF removable /\ ~fail
                                        THEN deleted_dirs_count + 1
                                        ELSE deleted_dirs_count
             /\ errors' = IF fail THEN errors + 1 ELSE errors
    /\ pc' = IF stack = <<>> THEN "ext_done" ELSE "ext_walk"
    /\ UNCHANGED <<dvars, fs, fs0, denied, svars, input_dir, output_dir, todo, written,
                   run, snap, moved_files_count, merged_files_count,
                   skipped_files_count, processed_successfully, walk, dirpath,
                   filenames, stack, root_sep>>

AMD == <<"a">> \o MD

\* the files found under root_folder: in it, in a sub-directory, in the
\* target folders and below one, with and without an extension to organize
ExtCandidateList ==
    << <<R, AMD>>, <<R, SUB_DIR, AMD>>, <<R, EXT_MD, AMD>>,
       <<R, EXT_MD, <<"a", "_", "1">> \o MD>>, <<R, EXT_MD, SUB_DIR, AMD>>,
       <<R, EXT_TXT, AMD>>, <<R, SUB_DIR, EXT_MD>>, <<R, <<"k">> \o PY>>,
       <<R, EXT_TXT>> >>

ExtCandidateFiles == { ExtCandidateList[k] : k \in 1..Len(ExtCandidateList) }

\* every file has its own content: the digit of its place in the list
ExtContent(p) ==
    <<Digits[(CHOOSE k \in 1..Len(ExtCandidateList) : ExtCandidateList[k] = p) + 1]>>

\* directories under root_folder that hold no file
ExtEmptyDirs ==
    { {}, {<<R, EXT_MD>>}, {<<R, EXT_MD>>, <<R, EXT_MD, <<"a", "_", "1">> \o MD>>},
      {<<R, <<"e">>>>} }

InitExtSplitter ==
    /\ DiarizeIdle
    /\ pc = "ext_start"
    /\ SplitterIdle
    /\ JournalIdle
    /\ \E files \in SUBSET ExtCandidateFiles, empty \in ExtEmptyDirs :
         /\ Cardinality(files) <= MaxFiles + 1
         /\ fs = [p \in files |-> ExtContent(p)]
         /\ dirs = {root_folder} \cup empty
                     \cup UNION { Ancestors(DirOf(p)) : p \in files }
         /\ dirs \cap files = {}
    /\ fs0 = fs
    /\ root_sep \in BOOLEAN
    /\ walk = {}
    /\ dirpath = <<>>
    /\ filenames = {}
    /\ stack = <<>>
    /\ deleted_dirs_count = 0

NextExtSplitter ==
    CreateTargetFolders \/ WalkInto \/ YieldDir \/ MoveByExtension \/ RemoveDirIfEmpty

SpecExtSplitter == InitExtSplitter /\ [][NextExtSplitter]_vars

(***************************************************************************)
(* Claims about organize_files_by_extension.                               *)
(***************************************************************************)
\* <name>_<n><ext> for file name nm
Suffixed(nm, n) ==
    Splitext(nm).root \o <<"_">> \o ZeroPad(n, 1) \o Splitext(nm).ext

\* C15: a step that moves a file changes the content of no file and removes
\* no file but the one it moves; the moved file arrives in root/<ext>/ under
\* its own name when that name was free there, and else under the first free
\* name <name>_<n><ext>, n = 1, 2, ...
C15_MoveNeverOverwrites ==
    [][ (pc = "ext_files" /\ fs' # fs) =>
          /\ \A p \in (DOMAIN fs) \cap (DOMAIN fs') : fs'[p] = fs[p]
          /\ \E src \in (DOMAIN fs) \ (DOMAIN fs') :
               \E dst \in (DOMAIN fs') \ (DOMAIN fs) :
                 LET nm     == src[Len(src)]
                     folder == root_folder \o <<file_extension(nm)>>
                 IN  /\ DOMAIN fs' = ((DOMAIN fs) \ {src}) \cup {dst}
                     /\ fs'[dst] = fs[src]
                     /\ DirOf(dst) = folder
                     /\ IF ~PathExists(fs, dirs, folder \o <<nm>>)
                          THEN dst[Len(dst)] = nm
                          ELSE \E n \in 1..(Cardinality(DOMAIN fs) + Cardinality(dirs)) :
                                 /\ dst[Len(dst)] = Suffixed(nm, n)
                                 /\ \A m \in 1..(n - 1) :
                                       PathExists(fs, dirs, folder \o <<Suffixed(nm, m)>>)
      ]_vars

\* a.md and a_1.md were in root/md/ before the run and still hold what they
\* held, and a third a.md has arrived there as a_2.md
C15_Witness ==
    /\ pc \in {"ext_files", "ext_walk", "ext_done"}
    /\ Exists(fs0, <<R, EXT_MD, AMD>>)
    /\ Exists(fs0, <<R, EXT_MD, Suffixed(AMD, 1)>>)
    /\ ~Exists(fs0, <<R, EXT_MD, Suffixed(AMD, 2)>>)
    /\ Exists(fs, <<R, EXT_MD, AMD>>)
    /\ fs[<<R, EXT_MD, AMD>>] = fs0[<<R, EXT_MD, AMD>>]
    /\ Exists(fs, <<R, EXT_MD, Suffixed(AMD, 1)>>)
    /\ fs[<<R, EXT_MD, Suffixed(AMD, 1)>>] = fs0[<<R, EXT_MD, Suffixed(AMD, 1)>>]
    /\ Exists(fs, <<R, EXT_MD, Suffixed(AMD, 2)>>)
    /\ moved_files_count = 1

(***************************************************************************)
(* Claims about a failure while one file is processed.                     *)
(***************************************************************************)
\* the path of the file that a step of a journal script has taken from todo
ProcessedPath(entry) == IF pc = "organize" THEN input_dir \o <<entry>> ELSE entry

\* C16: when a step of journal_organizer or journal_converter fails, the
\* file it was processing is still at its path with the content it had, and
\* the loop goes on with the files that are left.
C16_FailedFileLeftUntouched ==
    [][ (pc \in {"organize", "convert"} /\ errors' = errors + 1) =>
          /\ pc' = pc
          /\ \A entry \in todo \ todo' :
               Exists(fs, ProcessedPath(entry)) =>
                  /\ Exists(fs', ProcessedPath(entry))
                  /\ fs'[ProcessedPath(entry)] = fs[ProcessedPath(entry)] ]_vars

(***************************************************************************)
(* Claims about the segments of process_log_file.                          *)
(***************************************************************************)
\* position of the nearest boundary line before i (0: none)
LastBoundaryBefore(i) ==
    LET before == { j \in 1..(i - 1) : IsBoundary(input[j]) }
    IN  IF before = {} THEN 0 ELSE Max(before)

\* line k is a content line of the segment that boundary line s opened, when
\* a matching line with an invalid date does not end a segment
InSegmentOf(s, k) ==
    /\ k > s
    /\ ~date_pattern(input[k])
    /\ \A j \in (s + 1)..(k - 1) : ~IsBoundary(input[j])

\* C17: when the scan has completed and a matching line with an invalid date
\* came while the segment of a boundary line was open, the output file of
\* that segment holds the content lines before and after the invalid line.
C17_InvalidDateKeepsSegmentOpen ==
    ScanCompleted =>
        \A i \in 1..Len(input) :
            (/\ date_pattern(input[i])
             /\ ~ValidCalendarDate(input[i])
             /\ LastBoundaryBefore(i) > 0) =>
                LET s == LastBoundaryBefore(i)
                    p == ExpectedPath(input[s])
                IN  /\ Exists(fs, p)
                    /\ \A k \in 1..Len(input) :
                          InSegmentOf(s, k) => Occurs(Render(input[k]), fs[p])

IsSuffix(s, t) == Len(s) <= Len(t) /\ SubSeq(t, Len(t) - Len(s) + 1, Len(t)) = s

\* C18: at most one output file is open at any point; a step that opens the
\* file of a new segment leaves no other file open and has written the
\* collected lines of the segment before it to that segment's file; and when
\* the scan has completed no file is open and the file of the last boundary
\* line ends with the content lines of its segment.
C18_OneOpenSegmentFlushedInOrder ==
    /\ [](Cardinality(openFiles) <= 1)
    /\ [][ (handler'.set /\ handler' # handler) =>
             /\ openFiles' \subseteq {handler'.path}
             /\ (handler.set /\ handler.path # handler'.path) =>
                   IsSuffix(RenderAll(lines_for_current_segment), fs'[handler.path])
         ]_vars
    /\ [](ScanCompleted =>
            /\ openFiles = {}
            /\ LastBoundaryBefore(Len(input) + 1) > 0 =>
                 LET s == LastBoundaryBefore(Len(input) + 1)
                     p == ExpectedPath(input[s])
                 IN  /\ Exists(fs, p)
                     /\ IsSuffix(RenderAll(SegmentBody(s)), fs[p]))

\* C19: when the scan has completed, the output file of a boundary line that
\* is directly followed by a matching line or by the end of the input holds
\* the boundary line, " <user_info>: " and " <file name>: " and nothing else
\* (unless a later segment has the same date).
C19_EmptySegmentStillHasItsFile ==
    ScanCompleted =>
        \A j \in 1..Len(input) :
            (/\ IsBoundary(input[j])
             /\ (j = Len(input) \/ date_pattern(input[j + 1]))
             /\ \A k \in (j + 1)..Len(input) :
                   IsBoundary(input[k]) => ExpectedPath(input[k]) # ExpectedPath(input[j]))
            => LET p == ExpectedPath(input[j])
               IN  /\ Exists(fs, p)
                   /\ fs[p] = Render(input[j])
                              \o <<" ">> \o user_info \o <<":", " ">>
                              \o <<" ">> \o p[1] \o <<":", " ">>

\* C21: after a run in which no operation failed, every file under
\* root_folder whose extension is one to organize lies directly in
\* root_folder/<extension>/.
C21_EveryOrganizedFileInItsFolder ==
    (pc = "ext_done" /\ errors = 0) =>
        \A p \in DOMAIN fs :
            file_extension(p[Len(p)]) \in Extensions =>
                DirOf(p) = root_folder \o <<file_extension(p[Len(p)])>>

(***************************************************************************)
(* audio_speaker_diarization.py: speaker_diarization_and_transcription,    *)
(* the word-level path that combines the words of the transcription with   *)
(* the segments of the diarization.  A time is a whole number of           *)
(* milliseconds (the script holds seconds as a float); a word is           *)
(* [start, end, word], a segment is [start, end, speaker].  An output line *)
(* "- [time - speaker] text" is held as its three fields.                  *)
(***************************************************************************)
MaxWords == 3

UNKNOWN_SPEAKER == "UNKNOWN_SPEAKER"

SPEAKER_00 == "SPEAKER_00"

SPEAKER_01 == "SPEAKER_01"

WordStarts == {0, 1000, 2000}

\* " a", "b" and a word that is only whitespace
WordTexts == { <<" ", "a">>, <<"b">>, <<" ">> }

\* every word of the model lasts one second
WordData ==
    { [start |-> s, end |-> s + 1000, word |-> t] :
        s \in WordStarts, t \in WordTexts }

\* the words come in the order of their start times
WordLists ==
    { ws \in UNION { [1..n -> WordData] : n \in 1..MaxWords } :
        \A k \in 1..(Len(ws) - 1) : ws[k].start <= ws[k + 1].start }

\* the spans meet at the midpoint of a word, and one lies over the others
SpeakerSegments ==
    { [start |-> span[1], end |-> span[2], speaker |-> sp] :
        span \in {<<0, 1500>>, <<1500, 2500>>, <<0, 3500>>},
        sp \in {SPEAKER_00, SPEAKER_01} }

Diarizations == UNION { [1..n -> SpeakerSegments] : n \in 0..2 }

\* what \s of a regular expression and str.strip() take for whitespace
IsSpace(c) == c \in {" ", "\t", "\n"}

RECURSIVE LStrip(_)
LStrip(s) == IF s # <<>> /\ IsSpace(Head(s)) THEN LStrip(Tail(s)) ELSE s

RECURSIVE RStrip(_)
RStrip(s) == IF s # <<>> /\ IsSpace(s[Len(s)])
             THEN RStrip(SubSeq(s, 1, Len(s) - 1)) ELSE s

\* str.strip()
Strip(s) == RStrip(LStrip(s))

RECURSIVE CollapseSpaces(_)
\* re.sub(r'\s+', ' ', s)
CollapseSpaces(s) ==
    IF s = <<>> THEN <<>>
    ELSE IF IsSpace(Head(s)) THEN <<" ">> \o CollapseSpaces(LStrip(s))
    ELSE <<Head(s)>> \o CollapseSpaces(Tail(s))

\* format_timestamp of a time of ms milliseconds: timedelta.seconds leaves
\* the whole days out
format_timestamp(ms) ==
    LET td_seconds == (ms \div 1000) % 86400
        hours == td_seconds \div 3600
        remainder == td_seconds % 3600
        minutes == remainder \div 60
        seconds_val == remainder % 60
        milliseconds == ms % 1000
    IN ZeroPad(hours, 2) \o <<":">> \o ZeroPad(minutes, 2) \o <<":">>
         \o ZeroPad(seconds_val, 2) \o <<".">> \o ZeroPad(milliseconds, 3)

\* the differences of the times of the model are even, the halving is exact
word_mid_time(word_data) ==
    word_data.start + (word_data.end - word_data.start) \div 2

RECURSIVE LastMatchLoop(_, _, _)
\* a loop over the segments that does not stop at the first match
LastMatchLoop(segs, k, mid) ==
    IF k < 1 THEN UNKNOWN_SPEAKER
    ELSE IF segs[k].start <= mid /\ mid < segs[k].end THEN segs[k].speaker
    ELSE LastMatchLoop(segs, k - 1, mid)

LastMatch(segs, k, mid) == LastMatchLoop(segs, Len(segs), mid)

RECURSIVE active_speaker(_, _, _)
\* the for loop over speaker_segments from its k-th segment on, with its break
active_speaker(segs, k, mid) ==
    IF k > Len(segs) THEN UNKNOWN_SPEAKER
    ELSE IF segs[k].start <= mid /\ mid < segs[k].end THEN segs[k].speaker
    ELSE active_speaker(segs, k + 1, mid)

\* the lines with the bullet added, unless the bullet has no text
FinalizeBullet(lines, speaker, parts, start_time) ==
    LET full_text == CollapseSpaces(Strip(Flatten(parts)))
    IN IF parts # <<>> /\ full_text # <<>>
       THEN Append(lines, [time |-> format_timestamp(start_time),
                           speaker |-> speaker, text |-> full_text])
       ELSE lines

\* the transcript of the audio file a.wav
output_filepath ==
    <<OUT_DIR, <<"a", "_", "t", "r", "a", "n", "s", "c", "r", "i", "p", "t", "_",
                 "d", "i", "a", "r", "i", "z", "e", "d", ".", "t", "x", "t">>>>

\* one pass of the for loop over all_words
ProcessWord ==
    /\ pc = "words"
    /\ word_i < Len(all_words)
    /\ LET word_data == all_words[word_i + 1]
           speaker == active_speaker(speaker_segments, 1, word_mid_time(word_data))
       IN IF current_bullet_speaker = None
          THEN /\ current_bullet_speaker' = speaker
               /\ current_bullet_start_time' = word_data.start
               /\ current_bullet_text_parts' =
                      Append(current_bullet_text_parts, word_data.word)
               /\ UNCHANGED output_lines
          ELSE IF speaker = current_bullet_speaker
          THEN /\ current_bullet_text_parts' =
                      Append(current_bullet_text_parts, word_data.word)
               /\ UNCHANGED <<current_bullet_speaker, current_bullet_start_time,
                              output_lines>>
          ELSE /\ output_lines' = FinalizeBullet(output_lines, current_bullet_speaker,
                                                 current_bullet_text_parts,
                                                 current_bullet_start_time)
               /\ current_bullet_speaker' = speaker
               /\ current_bullet_start_time' = word_data.start
               /\ current_bullet_text_parts' = <<word_data.word>>
    /\ word_i' = word_i + 1
    /\ UNCHANGED <<pc, fs, dirs, fs0, denied, svars, jvars, wvars,
                   all_words, speaker_segments>>

\* the last bullet is added and the lines are written to the transcript
SaveTranscript ==
    /\ pc = "words"
    /\ word_i = Len(all_words)
    /\ output_lines' =
           IF current_bullet_speaker # None /\ current_bullet_start_time # NoStartTime
           THEN FinalizeBullet(output_lines, current_bullet_speaker,
                               current_bullet_text_parts, current_bullet_start_time)
           ELSE output_lines
    /\ fs' = Put(fs, output_filepath, output_lines')
    /\ pc' = "transcript"
    /\ UNCHANGED <<dirs, fs0, denied, svars, jvars, wvars, all_words,
                   speaker_segments, word_i, current_bullet_speaker,
                   current_bullet_text_parts, current_bullet_start_time>>

InitDiarize ==
    /\ pc = "words"
    /\ fs = NoFiles
    /\ fs0 = fs
    /\ dirs = {<<OUT_DIR>>}
    /\ SplitterIdle
    /\ JournalIdle
    /\ WalkIdle
    /\ all_words \in WordLists
    /\ speaker_segments \in Diarizations
    /\ word_i = 0
    /\ current_bullet_speaker = None
    /\ current_bullet_text_parts = <<>>
    /\ current_bullet_start_time = NoStartTime
    /\ output_lines = <<>>

NextDiarize == ProcessWord \/ SaveTranscript

SpecDiarize == InitDiarize /\ [][NextDiarize]_vars

(***************************************************************************)
(* The word-level merge, stated on the words and the segments alone.       *)
(***************************************************************************)
\* the segments that hold the midpoint of the k-th word
SegmentsAt(k) ==
    { j \in 1..Len(speaker_segments) :
        /\ 2 * speaker_segments[j].start <= all_words[k].start + all_words[k].end
        /\ all_words[k].start + all_words[k].end < 2 * speaker_segments[j].end }

AssignedSpeaker(k) ==
    IF SegmentsAt(k) = {} THEN UNKNOWN_SPEAKER
    ELSE speaker_segments[Min(SegmentsAt(k))].speaker

\* the first words of the maximal runs of words with one assigned speaker
RunStarts ==
    { k \in 1..Len(all_words) :
        k = 1 \/ AssignedSpeaker(k) # AssignedSpeaker(k - 1) }

RunEnd(k) ==
    CHOOSE j \in k..Len(all_words) :
        /\ \A m \in k..j : AssignedSpeaker(m) = AssignedSpeaker(k)
        /\ j = Len(all_words) \/ AssignedSpeaker(j + 1) # AssignedSpeaker(k)

\* the characters of a text that are not whitespace, in their order
Visible(text) == SelectSeq(text, LAMBDA c : ~IsSpace(c))

RunText(k) == Flatten([m \in 1..(RunEnd(k) - k + 1) |-> all_words[k + m - 1].word])

\* the runs that hold a word with non-blank text
VisibleRuns == { k \in RunStarts : Visible(RunText(k)) # <<>> }

NthRun(j) == CHOOSE k \in VisibleRuns : Cardinality({ m \in VisibleRuns : m < k }) = j - 1

C23_NoTwoConsecutiveLinesOfOneSpeaker ==
    (pc = "transcript" /\ Exists(fs, output_filepath)) =>
        \A j \in 1..(Len(fs[output_filepath]) - 1) :
            fs[output_filepath][j].speaker # fs[output_filepath][j + 1].speaker

\* the regular files os.listdir(input_dir) has listed in the current run
ListedFiles ==
    { p \in DOMAIN (IF run = 1 THEN fs0 ELSE snap.files) : DirOf(p) = input_dir }

\* C24: at the end of a run of organize_and_merge_files_by_date, the moved,
\* the merged and the skipped files together are as many as the entries of
\* the input directory that are no directories.
C24_EveryListedFileCountedOnce ==
    (pc = "organize" /\ todo = {} /\ run \in {1, 2}) =>
        moved_files_count + merged_files_count + skipped_files_count
            = Cardinality(ListedFiles)

====
